---- MODULE Spec2Model ----
(***************************************************************************)
(* CachedTGatherer (prometheus/cache/cache.go): a cache of dto.Metric      *)
(* records indexed by Key hash (c.metrics) and grouped into                *)
(* dto.MetricFamily records indexed by name (c.metricFamilyByName), behind *)
(* one sync.RWMutex (c.mMu).  Update applies a batch under the exclusive   *)
(* lock; Gather takes the shared lock and hands out a view together with   *)
(* the RUnlock that releases it.                                           *)
(*                                                                         *)
(* Records are heap objects: metricObj and familyObj map a pointer to the  *)
(* record it points to.  The two indexes and the Metric slice of a family  *)
(* hold pointers, so a record changed through one reference is changed for *)
(* every holder, and the deletion path compares pointers.  A pointer is    *)
(* named by the hash (the family name) the record was allocated for plus a *)
(* serial.  After every step the records no index, member list or working  *)
(* map refers to are dropped, as the garbage collector makes them          *)
(* unobservable, and the serials of the others are renumbered in order:    *)
(* the program compares pointers for equality only.                        *)
(*                                                                         *)
(* The batch of an Update is read one element per loop iteration, so the   *)
(* model draws inserts[i] and deletions[i] when the iteration runs.        *)
(***************************************************************************)
EXTENDS Integers, Sequences, FiniteSets, TLC

\* ------------------------------------------------------------------ bounds

\* Most iterations of the insert loop, and of the deletion loop, in one Update.
MaxInserts == 2
MaxDeletions == 1

\* ------------------------------------------------------------- input values

\* Go compares strings bytewise; the strings of the model in that order.
StrOrder == <<"", "1", "2", "a", "b", "h1", "h2", "x", "y">>

StrRank(s) == CHOOSE i \in 1..Len(StrOrder) : StrOrder[i] = s

StrLess(a, b) == StrRank(a) < StrRank(b)

MkKey(n, ln, lv) == [FQName |-> n, LabelNames |-> ln, LabelValues |-> lv]

KA == MkKey("a", <<>>, <<>>)
KAx == MkKey("a", <<"y", "x">>, <<"2", "1">>)
\* The label pairs of KAx, supplied in the other order.
KAxy == MkKey("a", <<"x", "y">>, <<"1", "2">>)
KB == MkKey("b", <<>>, <<>>)
KEmpty == MkKey("", <<>>, <<>>)
KMismatch == MkKey("a", <<"x">>, <<>>)

ValidKeys == {KA, KAx, KB}
Keys == ValidKeys \cup {KEmpty, KMismatch}

\* prometheus.ValueType: the three supported kinds and one value outside them.
CounterValue == "Counter"
GaugeValue == "Gauge"
UntypedValue == "Untyped"
BadValue == "ValueType(9)"

NoTime == <<>>
SomeTime == <<[sec |-> 1, nsec |-> 2500000]>>

\* Help, ValueType, Value, Timestamp of an Insert.
PCounter == [Help |-> "h1", ValueType |-> CounterValue, Value |-> 1, Timestamp |-> NoTime]
PGauge == [Help |-> "h2", ValueType |-> GaugeValue, Value |-> 2, Timestamp |-> SomeTime]
PUntyped == [Help |-> "h1", ValueType |-> UntypedValue, Value |-> 2, Timestamp |-> NoTime]
PBad == [Help |-> "h1", ValueType |-> BadValue, Value |-> 1, Timestamp |-> NoTime]

Payloads == {PCounter, PGauge, PUntyped, PBad}

MkInsert(k, p) ==
  [Key |-> k, Help |-> p.Help, ValueType |-> p.ValueType, Value |-> p.Value,
   Timestamp |-> p.Timestamp]

Inserts == { MkInsert(k, p) : k \in Keys, p \in Payloads }

\* The inserts that decide which records and families exist: every valid key
\* with one supported and one unsupported ValueType, and every invalid key.
KeyInserts ==
  { MkInsert(k, p) : k \in ValidKeys, p \in {PUntyped, PBad} }
    \cup { MkInsert(k, PUntyped) : k \in Keys \ ValidKeys }

\* ------------------------------------------------------------------ helpers

Range(f) == { f[x] : x \in DOMAIN f }

MapPut(f, k, v) == [x \in DOMAIN f \cup {k} |-> IF x = k THEN v ELSE f[x]]

MapDel(f, k) == [x \in DOMAIN f \ {k} |-> f[x]]

EmptyMap == <<>>

RemoveAt(s, i) == [j \in 1..(Len(s) - 1) |-> IF j < i THEN s[j] ELSE s[j + 1]]

\* ------------------------------------------------------------ Key, Insert

ErrEmptyName == "FQName cannot be empty"
ErrLabelLen == "new metric: label name has different length than values"
ErrNoFamily == "metric family does not exists"
ErrNoMetric == "metric family does not have such metric"
ErrValueType == "unsupported value type"

\* isValid without its first check.
isValidNoName(k) ==
  IF Len(k.LabelNames) # Len(k.LabelValues) THEN <<ErrLabelLen>> ELSE <<>>

\* Key.isValid: the error, or <<>> for nil.
isValid(k) ==
  IF k.FQName = "" THEN <<ErrEmptyName>>
  ELSE IF Len(k.LabelNames) # Len(k.LabelValues) THEN <<ErrLabelLen>>
  ELSE <<>>

SeparatorByte == "\\xff"

RECURSIVE hashPairs(_, _, _)
hashPairs(names, values, i) ==
  IF i > Len(names) THEN <<>>
  ELSE <<names[i], SeparatorByte, values[i], SeparatorByte>>
         \o hashPairs(names, values, i + 1)

\* Key.hash: the bytes written to the digest, in the order written.  The
\* 64-bit digest itself is taken to be free of collisions on these streams.
hash(k) == <<k.FQName, SeparatorByte>> \o hashPairs(k.LabelNames, k.LabelValues, 1)

\* ------------------------------------------------------------- the records

\* The pointers a record allocated for hash h (for family name n) can have.
MetricPtr(h, n) == [h |-> h, n |-> n]

FamilyPtr(name, n) == [name |-> name, n |-> n]

Min(S) == CHOOSE x \in S : \A y \in S : x <= y

\* &dto.Metric{...}, &dto.MetricFamily{}: a pointer no live record has (the
\* live records of a hash, of a name, have the serials below their number).
NewMetricPtr(S, h) ==
  MetricPtr(h, Cardinality({ m \in DOMAIN S.metricObj : m.h = h }))

NewFamilyPtr(S, name) ==
  FamilyPtr(name, Cardinality({ f \in DOMAIN S.familyObj : f.name = name }))

RECURSIVE InsertLabel(_, _)
InsertLabel(s, p) ==
  IF s = <<>> THEN <<p>>
  ELSE IF StrLess(p.Name, Head(s).Name) THEN <<p>> \o s
  ELSE <<Head(s)>> \o InsertLabel(Tail(s), p)

RECURSIVE LabelPairSorter(_, _)
\* sort.Sort(internal.LabelPairSorter(m.Label)): by label name.
LabelPairSorter(pairs, i) ==
  IF i = 0 THEN <<>>
  ELSE InsertLabel(LabelPairSorter(pairs, i - 1), pairs[i])

\* The dto.Metric built for a hash that is not in c.metrics.
NewMetric(ins) ==
  LET pairs == [j \in 1..Len(ins.Key.LabelNames) |->
                  [Name |-> ins.Key.LabelNames[j], Value |-> ins.Key.LabelValues[j]]]
  IN [Label |-> LabelPairSorter(pairs, Len(pairs)),
      Counter |-> <<>>, Gauge |-> <<>>, Untyped |-> <<>>, TimestampMs |-> <<>>]

\* The switch without the assignments of nil to the other two arms.
SetValueKeep(m, ins) ==
  CASE ins.ValueType = CounterValue -> [m EXCEPT !.Counter = <<ins.Value>>]
    [] ins.ValueType = GaugeValue -> [m EXCEPT !.Gauge = <<ins.Value>>]
    [] ins.ValueType = UntypedValue -> [m EXCEPT !.Untyped = <<ins.Value>>]

\* The switch on inserts[i].ValueType for the three supported kinds.
SetValue(m, ins) ==
  CASE ins.ValueType = CounterValue ->
         [m EXCEPT !.Counter = <<ins.Value>>, !.Gauge = <<>>, !.Untyped = <<>>]
    [] ins.ValueType = GaugeValue ->
         [m EXCEPT !.Counter = <<>>, !.Gauge = <<ins.Value>>, !.Untyped = <<>>]
    [] ins.ValueType = UntypedValue ->
         [m EXCEPT !.Counter = <<>>, !.Gauge = <<>>, !.Untyped = <<ins.Value>>]

Supported(vt) == vt \in {CounterValue, GaugeValue, UntypedValue}

\* m.TimestampMs from inserts[i].Timestamp.
SetTimestamp(m, ins) ==
  IF ins.Timestamp = <<>> THEN [m EXCEPT !.TimestampMs = <<>>]
  ELSE LET t == ins.Timestamp[1]
       IN [m EXCEPT !.TimestampMs = <<t.sec * 1000 + (t.nsec \div 1000000)>>]

\* ValueType.ToDTO (prometheus/value.go): the family's kind.
ToDTO(vt) ==
  CASE vt = CounterValue -> "COUNTER"
    [] vt = GaugeValue -> "GAUGE"
    [] OTHER -> "UNTYPED"

\* --------------------------------------------------------------- the store
\* A store S holds what one Update works on: the cache's two maps, the two
\* heaps, the working maps and the errors collected so far.

EmptyStore ==
  [metrics |-> EmptyMap, metricFamilyByName |-> EmptyMap,
   metricObj |-> EmptyMap, familyObj |-> EmptyMap,
   currMetrics |-> EmptyMap, currMetricFamilies |-> EmptyMap, errs |-> <<>>]

\* currMetrics without the map made under reset.
CurrMetricsNeverNew(S, reset) == S.metrics

\* currMetrics and currMetricFamilies are the cache's own maps unless reset
\* made new ones: a write through them is then a write to the live map.
CurrMetrics(S, reset) == IF reset THEN S.currMetrics ELSE S.metrics

CurrMetricFamilies(S, reset) ==
  IF reset THEN S.currMetricFamilies ELSE S.metricFamilyByName

SetCurrMetrics(S, reset, v) ==
  IF reset THEN [S EXCEPT !.currMetrics = v] ELSE [S EXCEPT !.metrics = v]

SetCurrMetricFamilies(S, reset, v) ==
  IF reset THEN [S EXCEPT !.currMetricFamilies = v]
  ELSE [S EXCEPT !.metricFamilyByName = v]

\* The records some map or member list still refers to.
LiveFamilies(S) == Range(S.metricFamilyByName) \cup Range(S.currMetricFamilies)

LiveMetrics(S) ==
  Range(S.metrics) \cup Range(S.currMetrics)
    \cup UNION { Range(S.familyObj[f].Metric) : f \in LiveFamilies(S) }

\* The store without its unreachable records, the others renumbered.
Collect(S) ==
  LET fams == LiveFamilies(S)
      mets == LiveMetrics(S)
      fr(f) == FamilyPtr(f.name,
                 Cardinality({ g \in fams : g.name = f.name /\ g.n < f.n }))
      mr(m) == MetricPtr(m.h,
                 Cardinality({ x \in mets : x.h = m.h /\ x.n < m.n }))
  IN [metrics |-> [h \in DOMAIN S.metrics |-> mr(S.metrics[h])],
      currMetrics |-> [h \in DOMAIN S.currMetrics |-> mr(S.currMetrics[h])],
      metricFamilyByName |->
        [n \in DOMAIN S.metricFamilyByName |-> fr(S.metricFamilyByName[n])],
      currMetricFamilies |->
        [n \in DOMAIN S.currMetricFamilies |-> fr(S.currMetricFamilies[n])],
      metricObj |->
        [p \in { mr(m) : m \in mets } |->
           S.metricObj[CHOOSE m \in mets : mr(m) = p]],
      familyObj |->
        [p \in { fr(f) : f \in fams } |->
           LET old == S.familyObj[CHOOSE f \in fams : fr(f) = p]
           IN [old EXCEPT !.Metric = [i \in DOMAIN old.Metric |-> mr(old.Metric[i])]]],
      errs |-> S.errs]

\* ------------------------------------------------- Update: the insert loop

\* "Update metric family" without the cut of line 148.
UpdateFamilyNoCut(S, reset, ins) ==
  LET name == ins.Key.FQName
      ok == name \in DOMAIN S.metricFamilyByName
      mf == IF ok THEN S.metricFamilyByName[name] ELSE NewFamilyPtr(S, name)
      old == IF ok THEN S.familyObj[mf]
             ELSE [Name |-> name, Help |-> "", Type |-> "", Metric |-> <<>>]
      new == [old EXCEPT !.Type = ToDTO(ins.ValueType), !.Help = ins.Help]
      S1 == [S EXCEPT !.familyObj = MapPut(S.familyObj, mf, new)]
  IN [S |-> SetCurrMetricFamilies(S1, reset,
                MapPut(CurrMetricFamilies(S1, reset), name, mf)),
      mf |-> mf]

\* "Update metric family": the family is looked up in the cache's map
\* c.metricFamilyByName, not in the working map; a missing one is made new, a
\* found one has its Metric slice cut to length 0 under reset.  Type and Help
\* are set and the pointer is stored in the working map.
UpdateFamily(S, reset, ins) ==
  LET name == ins.Key.FQName
      ok == name \in DOMAIN S.metricFamilyByName
      mf == IF ok THEN S.metricFamilyByName[name] ELSE NewFamilyPtr(S, name)
      old == IF ok THEN S.familyObj[mf]
             ELSE [Name |-> name, Help |-> "", Type |-> "", Metric |-> <<>>]
      cut == IF ok /\ reset THEN [old EXCEPT !.Metric = <<>>] ELSE old
      new == [cut EXCEPT !.Type = ToDTO(ins.ValueType), !.Help = ins.Help]
      S1 == [S EXCEPT !.familyObj = MapPut(S.familyObj, mf, new)]
  IN [S |-> SetCurrMetricFamilies(S1, reset,
                MapPut(CurrMetricFamilies(S1, reset), name, mf)),
      mf |-> mf]

\* "Update metric pointer": the record is looked up in the cache's map
\* c.metrics; a missing one is made new with its sorted label pairs.
LookupMetric(S, ins) ==
  LET hSum == hash(ins.Key)
      ok == hSum \in DOMAIN S.metrics
      m == IF ok THEN S.metrics[hSum] ELSE NewMetricPtr(S, hSum)
  IN [hSum |-> hSum, ok |-> ok, m |-> m,
      obj |-> IF ok THEN S.metricObj[m] ELSE NewMetric(ins)]

\* The loop without the continue of line 210.
SkipAppendNever(reset, ok) == FALSE

\* if !reset && ok { continue }: the record is taken to be a member already.
SkipAppend(reset, ok) == ~reset /\ ok

\* mf.Metric = append(mf.Metric, m)
AppendMember(S, mf, m) ==
  [S EXCEPT !.familyObj[mf].Metric = Append(S.familyObj[mf].Metric, m)]

\* The iteration with the unsupported ValueType appended to errs like an
\* invalid Key, the loop going on.
InsertBodySoft(S, reset, ins) ==
  IF isValid(ins.Key) # <<>>
  THEN [S |-> [S EXCEPT !.errs = S.errs \o isValid(ins.Key)], ret |-> FALSE, err |-> <<>>]
  ELSE IF ~Supported(ins.ValueType)
  THEN [S |-> Collect([UpdateFamily(S, reset, ins).S EXCEPT
                         !.errs = Append(S.errs, ErrValueType)]),
        ret |-> FALSE, err |-> <<>>]
  ELSE
    LET F == UpdateFamily(S, reset, ins)
        L == LookupMetric(F.S, ins)
        obj == SetTimestamp(SetValue(L.obj, ins), ins)
        S1 == [F.S EXCEPT !.metricObj = MapPut(F.S.metricObj, L.m, obj)]
        S2 == SetCurrMetrics(S1, reset, MapPut(CurrMetrics(S1, reset), L.hSum, L.m))
        S3 == IF SkipAppend(reset, L.ok) THEN S2 ELSE AppendMember(S2, F.mf, L.m)
    IN [S |-> Collect(S3), ret |-> FALSE, err |-> <<>>]

\* One iteration of "for i := range inserts": the store after it, and whether
\* the iteration returned from Update (ret) with the error it returned.
InsertBody(S, reset, ins) ==
  LET err == isValid(ins.Key)
  IN IF err # <<>>
     THEN [S |-> [S EXCEPT !.errs = S.errs \o err], ret |-> FALSE, err |-> <<>>]
     ELSE
       LET F == UpdateFamily(S, reset, ins)
           L == LookupMetric(F.S, ins)
       IN IF ~Supported(ins.ValueType)
          THEN [S |-> Collect(F.S), ret |-> TRUE, err |-> <<ErrValueType>>]
          ELSE
            LET obj == SetTimestamp(SetValue(L.obj, ins), ins)
                S1 == [F.S EXCEPT !.metricObj = MapPut(F.S.metricObj, L.m, obj)]
                S2 == SetCurrMetrics(S1, reset,
                        MapPut(CurrMetrics(S1, reset), L.hSum, L.m))
                S3 == IF SkipAppend(reset, L.ok) THEN S2
                      ELSE AppendMember(S2, F.mf, L.m)
            IN [S |-> Collect(S3), ret |-> FALSE, err |-> <<>>]

\* ----------------------------------------------- Update: the deletion loop

\* The index of m in mf.Metric, 0 when it is not there (toDel == -1).
IndexOf(members, m) ==
  IF \E i \in 1..Len(members) : members[i] = m
  THEN Min({ i \in 1..Len(members) : members[i] = m })
  ELSE 0

\* The removal that cuts the only member out of a family it leaves in the map.
RemoveMemberKeepFamily(S, reset, name, mf, toDel) ==
  [S EXCEPT !.familyObj[mf].Metric = RemoveAt(S.familyObj[mf].Metric, toDel)]

\* if len(mf.Metric) == 1: the family is deleted from the working map;
\* otherwise the member at toDel is cut out of the slice.
RemoveMember(S, reset, name, mf, toDel) ==
  IF Len(S.familyObj[mf].Metric) = 1
  THEN SetCurrMetricFamilies(S, reset, MapDel(CurrMetricFamilies(S, reset), name))
  ELSE [S EXCEPT !.familyObj[mf].Metric = RemoveAt(S.familyObj[mf].Metric, toDel)]

\* The iteration that takes a Key it does not find in currMetrics for an
\* error.
DeleteBodyStrict(S, reset, del) ==
  LET err == isValid(del)
  IN IF err # <<>> THEN [S EXCEPT !.errs = S.errs \o err]
     ELSE
       LET hSum == hash(del)
           cm == CurrMetrics(S, reset)
       IN IF hSum \notin DOMAIN cm THEN [S EXCEPT !.errs = Append(S.errs, ErrNoMetric)]
          ELSE
            LET m == cm[hSum]
                S1 == SetCurrMetrics(S, reset, MapDel(cm, hSum))
                cf == CurrMetricFamilies(S1, reset)
            IN IF del.FQName \notin DOMAIN cf
               THEN Collect([S1 EXCEPT !.errs = Append(S1.errs, ErrNoFamily)])
               ELSE
                 LET mf == cf[del.FQName]
                     toDel == IndexOf(S1.familyObj[mf].Metric, m)
                 IN IF toDel = 0
                    THEN Collect([S1 EXCEPT !.errs = Append(S1.errs, ErrNoMetric)])
                    ELSE Collect(RemoveMember(S1, reset, del.FQName, mf, toDel))

\* One iteration of "for _, del := range deletions".
DeleteBody(S, reset, del) ==
  LET err == isValid(del)
  IN IF err # <<>> THEN [S EXCEPT !.errs = S.errs \o err]
     ELSE
       LET hSum == hash(del)
           cm == CurrMetrics(S, reset)
       IN IF hSum \notin DOMAIN cm THEN S
          ELSE
            LET m == cm[hSum]
                S1 == SetCurrMetrics(S, reset, MapDel(cm, hSum))
                cf == CurrMetricFamilies(S1, reset)
            IN IF del.FQName \notin DOMAIN cf
               THEN Collect([S1 EXCEPT !.errs = Append(S1.errs, ErrNoFamily)])
               ELSE
                 LET mf == cf[del.FQName]
                     toDel == IndexOf(S1.familyObj[mf].Metric, m)
                 IN IF toDel = 0
                    THEN Collect([S1 EXCEPT !.errs = Append(S1.errs, ErrNoMetric)])
                    ELSE Collect(RemoveMember(S1, reset, del.FQName, mf, toDel))

\* --------------------------------------------------- Update: setup and end

\* currMetrics := c.metrics ... if reset { make, make }; errs := MultiError{}
Setup(S, reset) ==
  [S EXCEPT !.currMetrics = EmptyMap, !.currMetricFamilies = EmptyMap, !.errs = <<>>]

\* c.metrics = currMetrics; c.metricFamilyByName = currMetricFamilies
Swap(S, reset) ==
  Collect([S EXCEPT !.metrics = CurrMetrics(S, reset),
                    !.metricFamilyByName = CurrMetricFamilies(S, reset),
                    !.currMetrics = EmptyMap, !.currMetricFamilies = EmptyMap])

\* The return of line 198 leaves the working maps behind.
Abandon(S) == Collect([S EXCEPT !.currMetrics = EmptyMap, !.currMetricFamilies = EmptyMap])

\* An error value: nil, one error (errors.New, fmt.Errorf), or a MultiError.
NilError == [kind |-> "nil"]

ErrorOf(msg) == [kind |-> "error", msg |-> msg]

\* MultiError.MaybeUnwrap (prometheus/registry.go): nil when no error was
\* appended, else the errors combined into one aggregate.
MaybeUnwrap(es) ==
  IF Len(es) = 0 THEN NilError ELSE [kind |-> "MultiError", errs |-> es]

\* ------------------------------------------------------------------- Gather

RECURSIVE LabelValuesLess(_, _, _)
LabelValuesLess(la, lb, i) ==
  IF Len(la) # Len(lb) THEN Len(la) < Len(lb)
  ELSE IF i > Len(la) THEN FALSE
  ELSE IF la[i].Value # lb[i].Value THEN StrLess(la[i].Value, lb[i].Value)
  ELSE LabelValuesLess(la, lb, i + 1)

RECURSIVE InsertMetric(_, _, _)
InsertMetric(s, m, objs) ==
  IF s = <<>> THEN <<m>>
  ELSE IF LabelValuesLess(objs[m].Label, objs[Head(s)].Label, 1) THEN <<m>> \o s
  ELSE <<Head(s)>> \o InsertMetric(Tail(s), m, objs)

RECURSIVE MetricSorter(_, _, _)
\* The members of a family ordered by their label values.
MetricSorter(members, i, objs) ==
  IF i = 0 THEN <<>>
  ELSE InsertMetric(MetricSorter(members, i - 1, objs), members[i], objs)

RECURSIVE SortedNames(_)
SortedNames(names) ==
  IF names = {} THEN <<>>
  ELSE LET n == CHOOSE x \in names : \A y \in names : StrRank(x) <= StrRank(y)
       IN <<n>> \o SortedNames(names \ {n})

\* internal.NormalizeMetricFamilies: every family's members are put in order
\* in the stored record itself, and the view lists the stored families by name.
NormalizedFamilies(S) ==
  [f \in DOMAIN S.familyObj |->
     IF f \in Range(S.metricFamilyByName)
     THEN [S.familyObj[f] EXCEPT
             !.Metric = MetricSorter(S.familyObj[f].Metric,
                                     Len(S.familyObj[f].Metric), S.metricObj)]
     ELSE S.familyObj[f]]

NormalizedView(S) ==
  LET names == SortedNames(DOMAIN S.metricFamilyByName)
  IN [i \in 1..Len(names) |-> S.metricFamilyByName[names[i]]]

\* ---------------------------------------------------------------- the state

Updaters == {"u1", "u2"}
Gatherers == {"g1", "g2"}

VARIABLES
  metrics,             \* c.metrics: hash -> *dto.Metric
  metricFamilyByName,  \* c.metricFamilyByName: name -> *dto.MetricFamily
  metricObj,           \* the dto.Metric records, by pointer
  familyObj,           \* the dto.MetricFamily records, by pointer
  currMetrics,         \* Update's map made under reset
  currMetricFamilies,  \* Update's map made under reset
  errs,                \* Update's MultiError
  mMu,                 \* c.mMu: the writer holding or waiting for it, the readers
  upd,                 \* each Update caller: where it is, its arguments so far, its result
  gth                  \* each Gather caller: where it is, the view it holds

vars == <<metrics, metricFamilyByName, metricObj, familyObj, currMetrics,
          currMetricFamilies, errs, mMu, upd, gth>>

Store ==
  [metrics |-> metrics, metricFamilyByName |-> metricFamilyByName,
   metricObj |-> metricObj, familyObj |-> familyObj,
   currMetrics |-> currMetrics, currMetricFamilies |-> currMetricFamilies,
   errs |-> errs]

SetStore(S) ==
  /\ metrics' = S.metrics
  /\ metricFamilyByName' = S.metricFamilyByName
  /\ metricObj' = S.metricObj
  /\ familyObj' = S.familyObj
  /\ currMetrics' = S.currMetrics
  /\ currMetricFamilies' = S.currMetricFamilies
  /\ errs' = S.errs

storeVars == <<metrics, metricFamilyByName, metricObj, familyObj, currMetrics,
               currMetricFamilies, errs>>

\* What the cache of a store holds, the pointers followed: the record of each
\* hash of c.metrics, and each family of c.metricFamilyByName with its members
\* in the order of its Metric slice.
Content(S) ==
  [metrics |-> [h \in DOMAIN S.metrics |-> S.metricObj[S.metrics[h]]],
   families |->
     [n \in DOMAIN S.metricFamilyByName |->
        LET f == S.familyObj[S.metricFamilyByName[n]]
        IN [Name |-> f.Name, Help |-> f.Help, Type |-> f.Type,
            Metric |-> [j \in DOMAIN f.Metric |->
                          [hash |-> f.Metric[j].h, m |-> S.metricObj[f.Metric[j]]]]]]]

\* An Update caller before its first call.  Of the call it is in, or has
\* returned from: reset; i and d, the iterations of the two loops run so far;
\* inserted and deleted, the valid Keys those iterations were given; invalid,
\* the number of invalid Keys among them; offAt, the iteration whose insert
\* had a valid Key and an unsupported ValueType (0: none); prior, whether the
\* cache held a metric when the call got the lock, and before, what it held;
\* fresh, under reset, the store of a cache made by NewCachedTGatherer that is
\* given the same batch; err, the error returned.
IdleUpdate ==
  [pc |-> "idle", reset |-> FALSE, i |-> 0, d |-> 0, inserted |-> {},
   deleted |-> {}, invalid |-> 0, offAt |-> 0, prior |-> FALSE,
   before |-> Content(EmptyStore), fresh |-> EmptyStore, err |-> NilError]

IdleGather == [pc |-> "idle", view |-> <<>>]

\* NewCachedTGatherer
Init ==
  /\ metrics = EmptyMap
  /\ metricFamilyByName = EmptyMap
  /\ metricObj = EmptyMap
  /\ familyObj = EmptyMap
  /\ currMetrics = EmptyMap
  /\ currMetricFamilies = EmptyMap
  /\ errs = <<>>
  /\ mMu = [w |-> {}, readers |-> {}]
  /\ upd = [u \in Updaters |-> IdleUpdate]
  /\ gth = [g \in Gatherers |-> IdleGather]

\* ------------------------------------------------------------------- c.mMu
\* sync.RWMutex: Lock first takes the writers' mutex, which turns new RLock
\* calls away, then waits until the readers that hold the lock have left;
\* Unlock lets every RLock that was turned away in, then frees the mutex.

\* RLock of a lock that admits one holder at a time.
RLockExclusive(mu) == mu.w = {} /\ mu.readers = {}

\* RLock of a lock that lets a reader join the readers a writer waits for.
RLockJoinsReaders(mu) == mu.w = {} \/ mu.readers # {}

\* RLock returns at once unless a writer holds or waits for the lock.
RLockAdmits(mu) == mu.w = {}

\* The writers' mutex is free.
LockFree(mu) == mu.w = {}

\* Lock that waits for all readers but the last.
ReadersButOne(mu) == Cardinality(mu.readers) <= 1

\* Lock that does not wait for the readers.
ReadersIgnored(mu) == TRUE

\* The writer that announced itself has the lock once no reader is left.
ReadersGone(mu) == mu.readers = {}

\* Unlock: the blocked RLock calls return, the mutex is freed.
Unlock ==
  LET blocked == { g \in Gatherers : gth[g].pc = "blocked" }
  IN /\ mMu' = [w |-> {}, readers |-> blocked]
     /\ gth' = [g \in Gatherers |->
                  IF g \in blocked THEN [gth[g] EXCEPT !.pc = "admitted"] ELSE gth[g]]

\* ------------------------------------------------------------------- Update

\* Update(reset, inserts, deletions) is called.
UpdateCall(u, reset) ==
  /\ upd[u].pc \in {"idle", "done"}
  /\ upd' = [upd EXCEPT ![u] = [IdleUpdate EXCEPT !.pc = "Lock", !.reset = reset]]
  /\ UNCHANGED <<storeVars, mMu, gth>>

\* c.mMu.Lock(), first half: the writers' mutex.
UpdateLock(u) ==
  /\ upd[u].pc = "Lock"
  /\ LockFree(mMu)
  /\ mMu' = [mMu EXCEPT !.w = {u}]
  /\ upd' = [upd EXCEPT ![u].pc = "Wait"]
  /\ UNCHANGED <<storeVars, gth>>

\* c.mMu.Lock(), second half, and the setup of the working maps.
UpdateLocked(u) ==
  /\ upd[u].pc = "Wait"
  /\ ReadersGone(mMu)
  /\ SetStore(Setup(Store, upd[u].reset))
  /\ upd' = [upd EXCEPT ![u].pc = "inserts", ![u].prior = (DOMAIN metrics # {}),
                        ![u].before = Content(Store)]
  /\ UNCHANGED <<mMu, gth>>

\* What the batch element is, whatever the code makes of it.
KeyInvalid(k) == k.FQName = "" \/ Len(k.LabelNames) # Len(k.LabelValues)

Offending(ins) ==
  ~KeyInvalid(ins.Key) /\ ins.ValueType \notin {CounterValue, GaugeValue, UntypedValue}

\* One iteration of the insert loop, on inserts[i] = ins.  An unsupported
\* ValueType returns from Update, and the deferred Unlock runs.
UpdateInsert(u, ins) ==
  /\ upd[u].pc = "inserts"
  /\ upd[u].i < MaxInserts
  /\ LET R == InsertBody(Store, upd[u].reset, ins)
         U == [upd[u] EXCEPT
                 !.i = @ + 1,
                 !.inserted = IF KeyInvalid(ins.Key) THEN @ ELSE @ \cup {ins.Key},
                 !.invalid = IF KeyInvalid(ins.Key) THEN @ + 1 ELSE @,
                 !.offAt = IF Offending(ins) THEN upd[u].i + 1 ELSE @,
                 !.fresh = IF upd[u].reset THEN InsertBody(@, TRUE, ins).S ELSE @]
     IN IF R.ret
        THEN /\ SetStore(Abandon(R.S))
             /\ upd' = [upd EXCEPT ![u] = [U EXCEPT !.pc = "done",
                                                    !.err = ErrorOf(R.err[1])]]
             /\ Unlock
        ELSE /\ SetStore(R.S)
             /\ upd' = [upd EXCEPT ![u] = U]
             /\ UNCHANGED <<mMu, gth>>

\* One iteration of the deletion loop, on del.  The deletions start when the
\* insert loop has ended.
UpdateDelete(u, del) ==
  /\ upd[u].pc \in {"inserts", "deletions"}
  /\ upd[u].d < MaxDeletions
  /\ SetStore(DeleteBody(Store, upd[u].reset, del))
  /\ upd' = [upd EXCEPT ![u].pc = "deletions", ![u].d = @ + 1,
                        ![u].deleted = IF KeyInvalid(del) THEN @ ELSE @ \cup {del},
                        ![u].invalid = IF KeyInvalid(del) THEN @ + 1 ELSE @,
                        ![u].fresh = IF upd[u].reset THEN DeleteBody(@, TRUE, del) ELSE @]
  /\ UNCHANGED <<mMu, gth>>

\* Both loops have ended: the working maps become the cache's, Update returns
\* errs.MaybeUnwrap() and the deferred Unlock runs.
UpdateFinish(u) ==
  /\ upd[u].pc \in {"inserts", "deletions"}
  /\ SetStore(Swap(Store, upd[u].reset))
  /\ upd' = [upd EXCEPT ![u].pc = "done", ![u].err = MaybeUnwrap(errs),
                        ![u].fresh = IF upd[u].reset THEN Swap(@, TRUE) ELSE @]
  /\ Unlock

\* ------------------------------------------------------------------- Gather

\* The rest of Gather once RLock has returned: the families are normalized
\* and the view is handed out together with c.mMu.RUnlock.
GatherView(g) ==
  /\ metricObj' = metricObj
  /\ familyObj' = NormalizedFamilies(Store)
  /\ gth' = [gth EXCEPT ![g] = [pc |-> "holding", view |-> NormalizedView(Store)]]
  /\ UNCHANGED <<metrics, metricFamilyByName, currMetrics, currMetricFamilies,
                 errs, upd>>

\* Gather is called: c.mMu.RLock() returns at once, or blocks.
GatherCall(g) ==
  /\ gth[g].pc = "idle"
  /\ IF RLockAdmits(mMu)
     THEN /\ mMu' = [mMu EXCEPT !.readers = @ \cup {g}]
          /\ GatherView(g)
     ELSE /\ gth' = [gth EXCEPT ![g].pc = "blocked"]
          /\ UNCHANGED <<storeVars, mMu, upd>>

\* A blocked RLock has returned with the writer's Unlock; Gather goes on.
GatherResume(g) ==
  /\ gth[g].pc = "admitted"
  /\ GatherView(g)
  /\ UNCHANGED mMu

\* The caller invokes done: c.mMu.RUnlock().
GatherDone(g) ==
  /\ gth[g].pc = "holding"
  /\ mMu' = [mMu EXCEPT !.readers = @ \ {g}]
  /\ gth' = [gth EXCEPT ![g] = IdleGather]
  /\ UNCHANGED <<storeVars, upd>>

\* ------------------------------------------------------- the specifications

\* One Update caller and one Gather caller, every key.
Next ==
  \/ \E reset \in BOOLEAN : UpdateCall("u1", reset)
  \/ UpdateLock("u1")
  \/ UpdateLocked("u1")
  \/ \E ins \in KeyInserts : UpdateInsert("u1", ins)
  \/ \E del \in Keys : UpdateDelete("u1", del)
  \/ UpdateFinish("u1")
  \/ GatherCall("g1")
  \/ GatherResume("g1")
  \/ GatherDone("g1")

Spec == Init /\ [][Next]_vars

\* The inserts and deletions of the callers that contend for the lock.
LockInserts == { MkInsert(KA, PUntyped), MkInsert(KB, PUntyped) }
LockDeletions == { KA }

\* Two Update callers and two Gather callers.
NextRW ==
  \/ \E u \in Updaters, reset \in BOOLEAN : UpdateCall(u, reset)
  \/ \E u \in Updaters : UpdateLock(u)
  \/ \E u \in Updaters : UpdateLocked(u)
  \/ \E u \in Updaters, ins \in LockInserts : UpdateInsert(u, ins)
  \/ \E u \in Updaters, del \in LockDeletions : UpdateDelete(u, del)
  \/ \E u \in Updaters : UpdateFinish(u)
  \/ \E g \in Gatherers : GatherCall(g)
  \/ \E g \in Gatherers : GatherResume(g)
  \/ \E g \in Gatherers : GatherDone(g)

SpecRW == Init /\ [][NextRW]_vars

\* The inserts that decide what the records hold: two keys of one family,
\* every ValueType.
ValueKeys == {KA, KAx}

ValueInserts == { MkInsert(k, p) : k \in ValueKeys, p \in Payloads }

\* One Update caller and one Gather caller, two keys, every payload.
NextV ==
  \/ \E reset \in BOOLEAN : UpdateCall("u1", reset)
  \/ UpdateLock("u1")
  \/ UpdateLocked("u1")
  \/ \E ins \in ValueInserts : UpdateInsert("u1", ins)
  \/ \E del \in ValueKeys : UpdateDelete("u1", del)
  \/ UpdateFinish("u1")
  \/ GatherCall("g1")
  \/ GatherResume("g1")
  \/ GatherDone("g1")

SpecV == Init /\ [][NextV]_vars

\* The inserts that decide what a family holds: three keys of family a, two
\* of them with the same label pairs in different orders, and one of family b.
FamilyKeys == {KA, KAx, KAxy, KB}

FamilyInserts == { MkInsert(k, PUntyped) : k \in FamilyKeys }

\* One Update caller and one Gather caller, the keys of two families.
NextF ==
  \/ \E reset \in BOOLEAN : UpdateCall("u1", reset)
  \/ UpdateLock("u1")
  \/ UpdateLocked("u1")
  \/ \E ins \in FamilyInserts : UpdateInsert("u1", ins)
  \/ \E del \in FamilyKeys : UpdateDelete("u1", del)
  \/ UpdateFinish("u1")
  \/ GatherCall("g1")
  \/ GatherResume("g1")
  \/ GatherDone("g1")

SpecF == Init /\ [][NextF]_vars

\* The inserts of a supported ValueType, with every key.
SupportedInserts == { MkInsert(k, PUntyped) : k \in Keys }

\* One Update caller that never resets and inserts supported ValueTypes only,
\* and one Gather caller.
NextNR ==
  \/ UpdateCall("u1", FALSE)
  \/ UpdateLock("u1")
  \/ UpdateLocked("u1")
  \/ \E ins \in SupportedInserts : UpdateInsert("u1", ins)
  \/ \E del \in Keys : UpdateDelete("u1", del)
  \/ UpdateFinish("u1")
  \/ GatherCall("g1")
  \/ GatherResume("g1")
  \/ GatherDone("g1")

SpecNR == Init /\ [][NextNR]_vars

\* The scheduling of the callers: a goroutine that can run does run, so an
\* Update that has the lock goes on to its return, a Lock whose readers have
\* left returns, an RLock that was let in returns, and a caller that holds a
\* view invokes its release; and the writers' mutex, which hands itself to a
\* caller that has waited long, lets no Lock wait forever while it is freed
\* again and again.
Fairness ==
  /\ \A u \in Updaters :
       /\ SF_vars(UpdateLock(u))
       /\ WF_vars(UpdateLocked(u))
       /\ WF_vars(UpdateFinish(u))
  /\ \A g \in Gatherers :
       /\ WF_vars(GatherResume(g))
       /\ WF_vars(GatherDone(g))

\* Two Update callers and two Gather callers with batches of one key, fairly
\* scheduled.
NextFair ==
  \/ \E u \in Updaters, reset \in BOOLEAN : UpdateCall(u, reset)
  \/ \E u \in Updaters : UpdateLock(u)
  \/ \E u \in Updaters : UpdateLocked(u)
  \/ \E u \in Updaters : UpdateInsert(u, MkInsert(KA, PUntyped))
  \/ \E u \in Updaters : UpdateDelete(u, KA)
  \/ \E u \in Updaters : UpdateFinish(u)
  \/ \E g \in Gatherers : GatherCall(g)
  \/ \E g \in Gatherers : GatherResume(g)
  \/ \E g \in Gatherers : GatherDone(g)

SpecFair == Init /\ [][NextFair]_vars /\ Fairness

\* --------------------------------------------------------- the properties

\* No Update is between its Lock and its return: the cache is as the calls
\* so far left it.
Quiescent == \A u \in Updaters : upd[u].pc \notin {"inserts", "deletions"}

\* An Update has returned, and not from line 198.
Completed(u) == upd[u].pc = "done" /\ upd[u].offAt = 0

\* The FQName a hash was computed from: the first string written.
FQNameOf(h) == h[1]

\* How often the record m occurs in the member list of the family named name
\* in the name index.
Occurrences(m, name) ==
  IF name \in DOMAIN metricFamilyByName
  THEN Cardinality({ i \in DOMAIN familyObj[metricFamilyByName[name]].Metric :
                       familyObj[metricFamilyByName[name]].Metric[i] = m })
  ELSE 0

Members(name) == Range(familyObj[metricFamilyByName[name]].Metric)

\* C1: between Updates, every record in the hash index occurs exactly once in
\* the member list of the family named by its Key's FQName, and in no other
\* family's list.
C1_RegisteredIsMemberOnce ==
  Quiescent =>
    \A h \in DOMAIN metrics :
      /\ Occurrences(metrics[h], FQNameOf(h)) = 1
      /\ \A n \in DOMAIN metricFamilyByName \ {FQNameOf(h)} :
           Occurrences(metrics[h], n) = 0

\* C2: between Updates, every member of a family of the name index is the
\* record registered in the hash index under its own hash, and no member list
\* holds a record, or two records of one hash, twice.
C2_MemberIsRegisteredOnce ==
  Quiescent =>
    \A n \in DOMAIN metricFamilyByName :
      LET ms == familyObj[metricFamilyByName[n]].Metric
      IN /\ \A i \in DOMAIN ms :
              ms[i].h \in DOMAIN metrics /\ metrics[ms[i].h] = ms[i]
         /\ \A i, j \in DOMAIN ms : i # j => ms[i].h # ms[j].h

\* C3: between Updates, whether they returned an error or not, no family of
\* the name index has an empty member list.
C3_NoEmptyFamily ==
  Quiescent =>
    \A n \in DOMAIN metricFamilyByName :
      familyObj[metricFamilyByName[n]].Metric # <<>>

\* An Update is in its critical section, between Lock and Unlock.
InCS(u) == upd[u].pc \in {"inserts", "deletions"}

\* A Gather has the shared lock; its view is out once it is "holding".
HoldsShared(g) == gth[g].pc \in {"admitted", "holding"}

ViewOut == \E g \in Gatherers : gth[g].pc = "holding"

C4_Exclusion ==
  \A u \in Updaters :
    InCS(u) => /\ \A v \in Updaters \ {u} : ~InCS(v)
               /\ \A g \in Gatherers : ~HoldsShared(g)

C4_NothingChangesUnderView ==
  ViewOut =>
    /\ UNCHANGED <<metrics, metricFamilyByName, metricObj, familyObj>>
    /\ \A u \in Updaters : upd'[u].pc = "done" => upd[u].pc = "done"

\* C4: an Update in its critical section excludes every other Update's
\* critical section and every outstanding Gather view; and in a step taken
\* while a view is out, neither index and no record changes and no Update
\* returns.
C4_WriterExcludesAll == []C4_Exclusion /\ [][C4_NothingChangesUnderView]_vars

\* An Update has called Lock and waits while a view is out.
C4_Witness ==
  /\ gth["g1"].pc = "holding"
  /\ gth["g1"].view # <<>>
  /\ upd["u1"].pc = "Wait"
  /\ upd["u2"].pc = "Lock"

\* C5: a Gather is blocked only while an Update holds or waits for the lock,
\* whatever views are out; the shared holders are exactly the Gathers that
\* have not released; and no Update is in its critical section while one
\* of them is left.
C5_OnlyUpdateBlocksGather ==
  /\ \A g \in Gatherers :
       gth[g].pc = "blocked" => \E u \in Updaters : upd[u].pc \in {"Wait", "inserts", "deletions"}
  /\ mMu.readers = { g \in Gatherers : HoldsShared(g) }
  /\ (\E u \in Updaters : InCS(u)) => mMu.readers = {}

\* Two views are out at once.
C5_Witness == gth["g1"].pc = "holding" /\ gth["g2"].pc = "holding"

\* C6: once an iteration of the insert loop was given a valid Key with an
\* unsupported ValueType, the Update has returned, with that one error and
\* none of the errors collected before, and neither loop ran another
\* iteration.
C6_UnsupportedKindAborts ==
  \A u \in Updaters :
    upd[u].offAt > 0 =>
      /\ upd[u].pc = "done"
      /\ upd[u].err = ErrorOf(ErrValueType)
      /\ upd[u].i = upd[u].offAt
      /\ upd[u].d = 0

\* An Update returned the one error after it had collected another.
C6_Witness ==
  /\ upd["u1"].pc = "done"
  /\ upd["u1"].offAt = 2
  /\ upd["u1"].invalid = 1
  /\ errs # <<>>
  /\ upd["u1"].err = ErrorOf(ErrValueType)

KeyErrors(es) ==
  Cardinality({ j \in DOMAIN es : es[j] \in {ErrEmptyName, ErrLabelLen} })

\* The iteration given an invalid Key changes no map and no record, appends
\* one error, and leaves the Update in its loops.
C7_InvalidKeyStep ==
  \A u \in Updaters :
    upd'[u].invalid = upd[u].invalid + 1 =>
      /\ UNCHANGED <<metrics, metricFamilyByName, metricObj, familyObj,
                     currMetrics, currMetricFamilies>>
      /\ Len(errs') = Len(errs) + 1
      /\ SubSeq(errs', 1, Len(errs)) = errs
      /\ errs'[Len(errs')] \in {ErrEmptyName, ErrLabelLen}
      /\ upd'[u].pc \in {"inserts", "deletions"}

\* The Update that was not aborted has collected one error for each invalid
\* Key, and returns nil exactly when it has collected none.
C7_Result ==
  \A u \in Updaters :
    Completed(u) =>
      /\ KeyErrors(errs) = upd[u].invalid
      /\ upd[u].err = NilError <=> errs = <<>>
      /\ upd[u].err # NilError => upd[u].err = [kind |-> "MultiError", errs |-> errs]

\* C7: an insert or deletion with an invalid Key is skipped: it changes
\* neither index, adds one error and does not end the loops, so the other
\* elements are applied as without it; and an Update that is not aborted
\* returns nil exactly when no element produced an error.
C7_InvalidKeySkipped == [][C7_InvalidKeyStep]_vars /\ []C7_Result

\* An Update skipped an invalid Key and applied a valid insert.
C7_Witness ==
  /\ Completed("u1")
  /\ upd["u1"].invalid = 1
  /\ upd["u1"].inserted = {KA}
  /\ hash(KA) \in DOMAIN metrics
  /\ upd["u1"].err = [kind |-> "MultiError", errs |-> <<ErrEmptyName>>]

\* C8: after an Update that was not aborted, every valid Key it inserted and
\* did not delete is registered, and its record is a member, once, of the
\* family of the name index named by its FQName: the inserted Keys of one
\* name are distinct members of one family.
C8_SameNameInsertsShareFamily ==
  \A u \in Updaters :
    Completed(u) =>
      \A k \in upd[u].inserted \ upd[u].deleted :
        /\ hash(k) \in DOMAIN metrics
        /\ Occurrences(metrics[hash(k)], k.FQName) = 1

InsertedHashes(u) == { hash(k) : k \in upd[u].inserted }

InsertedNames(u) == { k.FQName : k \in upd[u].inserted }

\* C10: after an Update with reset that was not aborted, the hash index holds
\* hashes of inserted Keys only, the name index families of inserted names
\* only, with records of inserted Keys only as members, and a view a Gather
\* then hands out lists those families only: none after an empty batch.
C10_ResetKeepsOnlyBatch ==
  \A u \in Updaters :
    (Completed(u) /\ upd[u].reset) =>
      /\ DOMAIN metrics \subseteq InsertedHashes(u)
      /\ DOMAIN metricFamilyByName \subseteq InsertedNames(u)
      /\ \A n \in DOMAIN metricFamilyByName :
           \A m \in Members(n) : m.h \in InsertedHashes(u)
      /\ \A g \in Gatherers :
           gth[g].pc = "holding" =>
             \A j \in DOMAIN gth[g].view :
               /\ gth[g].view[j] \in Range(metricFamilyByName)
               /\ familyObj[gth[g].view[j]].Name \in InsertedNames(u)

\* A reset with an empty batch emptied a cache that held metrics, and a
\* Gather after it got the empty view.
C10_Witness ==
  /\ Completed("u1")
  /\ upd["u1"].reset
  /\ upd["u1"].prior
  /\ upd["u1"].i = 0
  /\ metrics = EmptyMap
  /\ metricFamilyByName = EmptyMap
  /\ gth["g1"].pc = "holding"
  /\ gth["g1"].view = <<>>

\* The iteration of the deletion loop of an Update without reset that is
\* given a valid Key whose hash c.metrics does not hold changes no map, no
\* record and not the errors.
C11_AbsentDeletionStep ==
  \A u \in Updaters :
    ( /\ ~upd[u].reset
      /\ upd'[u].d = upd[u].d + 1
      /\ upd'[u].invalid = upd[u].invalid
      /\ \E k \in ValidKeys : /\ upd'[u].deleted = upd[u].deleted \cup {k}
                              /\ hash(k) \notin DOMAIN metrics )
      => UNCHANGED storeVars

\* What the cache holds.
Cache == Content(Store)

\* The step in which an Update returns, and not from line 198.
Returns(u) == upd[u].pc # "done" /\ upd'[u].pc = "done" /\ upd'[u].offAt = 0

\* The Update without reset that was given no insert and only valid Keys the
\* cache did not hold as deletions returns nil and leaves the cache as it
\* was.
C11_AbsentDeletionsResult ==
  \A u \in Updaters :
    ( /\ Returns(u)
      /\ ~upd[u].reset
      /\ upd[u].i = 0
      /\ upd[u].invalid = 0
      /\ \A k \in upd[u].deleted : hash(k) \notin DOMAIN upd[u].before.metrics )
      => /\ upd'[u].err = NilError
         /\ Cache' = upd[u].before

\* C11: in an Update without reset the deletion of a valid Key whose hash is
\* not in the hash index adds no error and changes neither index nor any
\* member list; and the Update made of such deletions only returns nil and
\* leaves the cache as it was.
C11_AbsentDeletionNoOp ==
  [][C11_AbsentDeletionStep /\ C11_AbsentDeletionsResult]_vars

\* An Update without reset was given the Key of family b alone, as a
\* deletion, on a cache that held metrics of family a and none of b.
C11_Witness ==
  /\ Completed("u1")
  /\ ~upd["u1"].reset
  /\ upd["u1"].i = 0
  /\ upd["u1"].d = 1
  /\ upd["u1"].deleted = {KB}
  /\ upd["u1"].prior
  /\ hash(KB) \notin DOMAIN upd["u1"].before.metrics
  /\ upd["u1"].err = NilError

\* The values the three arms of a record hold.
ValuesOf(m) == m.Counter \o m.Gauge \o m.Untyped

\* The Metric slice of the family named n in the name index.
MemberList(n) == familyObj[metricFamilyByName[n]].Metric

\* The iteration of an Update without reset given a valid insert of a
\* supported ValueType whose hash c.metrics holds.
C12_ReinsertStep ==
  \A u \in Updaters, ins \in Inserts :
    ( /\ UpdateInsert(u, ins)
      /\ ~upd[u].reset
      /\ ~KeyInvalid(ins.Key)
      /\ ~Offending(ins)
      /\ hash(ins.Key) \in DOMAIN metrics )
      => /\ metrics' = metrics
         /\ metricObj'[metrics[hash(ins.Key)]].Label = metricObj[metrics[hash(ins.Key)]].Label
         /\ ValuesOf(metricObj'[metrics[hash(ins.Key)]]) = <<ins.Value>>
         /\ \A h \in DOMAIN metrics \ {hash(ins.Key)} :
              metricObj'[metrics[h]] = metricObj[metrics[h]]
         /\ \A n \in DOMAIN metricFamilyByName :
              /\ n \in DOMAIN metricFamilyByName'
              /\ MemberList(n)' = MemberList(n)

\* C12: in an Update without reset, the iteration given a valid insert of a
\* supported ValueType whose hash c.metrics holds leaves the hash index as it
\* is, the record of that hash keeping its labels and holding the insert's
\* value; and every family of the name index stays there with its member
\* list, the same records in the same order.
C12_ReinsertInPlace == [][C12_ReinsertStep]_vars

\* An Update without reset has inserted, twice, a Key the cache held as one
\* of the two members of its family: the record holds the new value, of
\* another kind, and the family has its two members.
C12_Witness ==
  /\ upd["u1"].pc = "inserts"
  /\ ~upd["u1"].reset
  /\ upd["u1"].i = 2
  /\ upd["u1"].inserted = {KA}
  /\ hash(KA) \in DOMAIN upd["u1"].before.metrics
  /\ upd["u1"].before.metrics[hash(KA)].Untyped = <<2>>
  /\ Len(upd["u1"].before.families["a"].Metric) = 2
  /\ metricObj[metrics[hash(KA)]].Counter = <<1>>
  /\ metricObj[metrics[hash(KA)]].Untyped = <<>>
  /\ Len(MemberList("a")) = 2

\* The Update with reset that returns, and not from line 198, leaves the
\* cache, and returns the error, that the same batch leaves in, and returns
\* from, a cache made by NewCachedTGatherer.
C13_ResetStep ==
  \A u \in Updaters :
    (Returns(u) /\ upd[u].reset) =>
      /\ Cache' = Content(upd'[u].fresh)
      /\ upd'[u].err = MaybeUnwrap(upd'[u].fresh.errs)

\* C13: whatever the cache held, an Update with reset that is not aborted
\* ends with the error, the families with their help and kind, and the
\* members with their labels, value arm, value and timestamp, that the same
\* batch gives on a new, empty cache: the reuse of the records is not seen.
C13_ResetAsOnNewCache == [][C13_ResetStep]_vars

\* An Update with reset has returned whose batch inserted a Key the cache
\* held, into a family the cache held with two members, so that the family
\* record and the Metric record were used again.
C13_Witness ==
  /\ Completed("u1")
  /\ upd["u1"].reset
  /\ KA \in upd["u1"].inserted
  /\ hash(KA) \in DOMAIN upd["u1"].before.metrics
  /\ "a" \in DOMAIN upd["u1"].before.families
  /\ Len(upd["u1"].before.families["a"].Metric) = 2
  /\ upd["u1"].before.metrics[hash(KA)].Gauge = <<2>>
  /\ hash(KA) \in DOMAIN metrics
  /\ metricObj[metrics[hash(KA)]].Counter = <<1>>
  /\ Cache = Content(upd["u1"].fresh)

\* A step that begins and ends with the view of g not released: an Update
\* that has called Lock is still in Lock, no Update is past Lock or returns,
\* and the cache is as it was.  And the view of g is out until g invokes the
\* release it was handed.
C14_UnreleasedViewStep ==
  \A g \in Gatherers :
    /\ (gth[g].pc = "holding" /\ gth'[g].pc = "holding") =>
         /\ \A u \in Updaters :
              /\ upd[u].pc \in {"Lock", "Wait"} => upd'[u].pc \in {"Lock", "Wait"}
              /\ upd'[u].pc \notin {"inserts", "deletions"}
              /\ upd'[u].pc = "done" => upd[u].pc = "done"
         /\ Cache' = Cache
         /\ mMu'.readers # {}
    /\ (gth[g].pc = "holding" /\ gth'[g].pc # "holding") => GatherDone(g)

\* C14: as long as the release of a view that was handed out is not invoked,
\* no Update that has not returned gets the lock or returns, and the cache
\* does not change; nothing but the release ends this.
C14_UnreleasedViewBlocksUpdates == [][C14_UnreleasedViewStep]_vars

\* A view of a cache that holds metrics is out; one Update waits for the
\* readers to leave, the other for the writers' mutex, and a Gather that
\* came after them is blocked.
C14_Witness ==
  /\ gth["g1"].pc = "holding"
  /\ gth["g1"].view # <<>>
  /\ gth["g2"].pc = "blocked"
  /\ upd["u1"].pc = "Wait"
  /\ upd["u2"].pc = "Lock"

\* The ValueTypes whose arm a record has populated.
ArmsOf(m) ==
  { vt \in {CounterValue, GaugeValue, UntypedValue} :
      \/ vt = CounterValue /\ m.Counter # <<>>
      \/ vt = GaugeValue /\ m.Gauge # <<>>
      \/ vt = UntypedValue /\ m.Untyped # <<>> }

\* Every record of the hash index, and of the index an Update with reset
\* builds, has one arm populated.
C15_OneArm ==
  /\ \A h \in DOMAIN metrics : Cardinality(ArmsOf(metricObj[metrics[h]])) = 1
  /\ \A h \in DOMAIN currMetrics : Cardinality(ArmsOf(metricObj[currMetrics[h]])) = 1

\* The iteration given a valid insert of a supported ValueType leaves the
\* record it registers with the arm of that ValueType, holding the insert's
\* value; and the arm or value of a registered record changes in no other
\* step than such an iteration for its hash.
C15_ArmStep ==
  /\ \A u \in Updaters, ins \in Inserts :
       (UpdateInsert(u, ins) /\ ~KeyInvalid(ins.Key) /\ ~Offending(ins)) =>
         LET idx == IF upd[u].reset THEN currMetrics' ELSE metrics'
         IN /\ hash(ins.Key) \in DOMAIN idx
            /\ ArmsOf(metricObj'[idx[hash(ins.Key)]]) = {ins.ValueType}
            /\ ValuesOf(metricObj'[idx[hash(ins.Key)]]) = <<ins.Value>>
  /\ \A h \in DOMAIN metrics \cap DOMAIN metrics' :
       LET old == metricObj[metrics[h]]
           new == metricObj'[metrics'[h]]
       IN (ArmsOf(new) # ArmsOf(old) \/ ValuesOf(new) # ValuesOf(old)) =>
            \E u \in Updaters, ins \in Inserts :
              /\ UpdateInsert(u, ins)
              /\ ~KeyInvalid(ins.Key)
              /\ ~Offending(ins)
              /\ hash(ins.Key) = h

\* C15: a registered record has exactly one of its three arms populated at
\* any time, the arm of the ValueType of the last insert applied for its
\* Key; the insert of another kind leaves the arm it finds populated empty.
C15_OneArmOfLastInsert == []C15_OneArm /\ [][C15_ArmStep]_vars

\* An insert has changed the kind of a record the cache held: the Gauge arm
\* it had is empty, the Untyped arm holds the value.
C15_Witness ==
  /\ upd["u1"].pc = "inserts"
  /\ upd["u1"].i = 1
  /\ upd["u1"].inserted = {KAx}
  /\ hash(KAx) \in DOMAIN upd["u1"].before.metrics
  /\ ArmsOf(upd["u1"].before.metrics[hash(KAx)]) = {GaugeValue}
  /\ hash(KAx) \in DOMAIN metrics
  /\ ArmsOf(metricObj[metrics[hash(KAx)]]) = {UntypedValue}
  /\ metricObj[metrics[hash(KAx)]].Gauge = <<>>

\* C16: KAx and KAxy are one FQName with the same label pairs in two orders.
\* After an Update that was not aborted and inserted both and deleted
\* neither, they are two entries of the hash index, their two records have
\* equal stored labels and are each a member, once, of family a; and after
\* one that inserted both and deleted one of them, the other is still
\* registered and a member.
C16_OrderMakesTwoMembers ==
  \A u \in Updaters :
    (Completed(u) /\ {KAx, KAxy} \subseteq upd[u].inserted) =>
      /\ hash(KAx) # hash(KAxy)
      /\ \A k \in {KAx, KAxy} \ upd[u].deleted :
           /\ hash(k) \in DOMAIN metrics
           /\ Occurrences(metrics[hash(k)], "a") = 1
      /\ \A k \in {KAx, KAxy} \cap upd[u].deleted : hash(k) \notin DOMAIN metrics
      /\ upd[u].deleted \cap {KAx, KAxy} = {} =>
           /\ metrics[hash(KAx)] # metrics[hash(KAxy)]
           /\ metricObj[metrics[hash(KAx)]].Label = metricObj[metrics[hash(KAxy)]].Label

\* The hashes of the records of a member list, in its order.
HashesOf(members) == [j \in DOMAIN members |-> members[j].h]

\* The iteration of the deletion loop given a valid Key whose record the
\* index the Update works on holds, as a member of the family of its FQName
\* there: the hash leaves that index and the other entries stay as they are;
\* the family leaves the name index if the record was its only member, and
\* else loses that one member, the others staying in their order; every
\* other family keeps its members, and no error is added.
C17_DeletionStep ==
  \A u \in Updaters, del \in Keys \cup FamilyKeys :
    LET reset == upd[u].reset
        idx == IF reset THEN currMetrics ELSE metrics
        fams == IF reset THEN currMetricFamilies ELSE metricFamilyByName
        idxN == IF reset THEN currMetrics' ELSE metrics'
        famsN == IF reset THEN currMetricFamilies' ELSE metricFamilyByName'
        name == del.FQName
    IN ( /\ UpdateDelete(u, del)
         /\ ~KeyInvalid(del)
         /\ hash(del) \in DOMAIN idx
         /\ name \in DOMAIN fams
         /\ idx[hash(del)] \in Range(familyObj[fams[name]].Metric) )
         => LET ms == familyObj[fams[name]].Metric
            IN /\ DOMAIN idxN = DOMAIN idx \ {hash(del)}
               /\ \A h \in DOMAIN idxN : metricObj'[idxN[h]] = metricObj[idx[h]]
               /\ errs' = errs
               /\ IF Len(ms) = 1
                  THEN name \notin DOMAIN famsN
                  ELSE /\ name \in DOMAIN famsN
                       /\ HashesOf(familyObj'[famsN[name]].Metric)
                            = HashesOf(RemoveAt(ms, IndexOf(ms, idx[hash(del)])))
               /\ \A n \in DOMAIN fams \ {name} :
                    /\ n \in DOMAIN famsN
                    /\ HashesOf(familyObj'[famsN[n]].Metric)
                         = HashesOf(familyObj[fams[n]].Metric)
               /\ DOMAIN famsN \subseteq DOMAIN fams

\* Once the deletion loop has begun the insert loop runs no more.
C17_DeletionsLast ==
  \A u \in Updaters : upd[u].pc = "deletions" => upd'[u].i = upd[u].i

\* After an Update that was not aborted, a Key it both inserted and deleted
\* is in neither index: its hash is not registered and no family has a
\* member of that hash.
C17_InsertedAndDeletedAbsent ==
  \A u \in Updaters :
    Completed(u) =>
      \A k \in upd[u].inserted \cap upd[u].deleted :
        /\ hash(k) \notin DOMAIN metrics
        /\ \A n \in DOMAIN metricFamilyByName :
             \A j \in DOMAIN MemberList(n) : MemberList(n)[j].h # hash(k)

\* C17: the deletion of a valid Key that is cached and is a member of its
\* family takes it out of the hash index and out of the family: the family
\* goes with its only member, and else loses just that member, the rest in
\* their order; nothing else changes.  The deletions come after all inserts
\* of the batch, so a Key inserted and deleted in one batch is absent.
C17_DeletionRemovesMember ==
  [][C17_DeletionStep /\ C17_DeletionsLast]_vars /\ []C17_InsertedAndDeletedAbsent

\* C18: on a cache that has seen only Updates without reset whose inserts
\* have supported ValueTypes, between Updates every registered record is a
\* member, once, of the family of its FQName and of no other; every member of
\* a family is the record registered under its hash, and no two members have
\* one hash; and no family is without members.
C18_NoResetCorrespondence ==
  Quiescent =>
    /\ \A h \in DOMAIN metrics :
         /\ FQNameOf(h) \in DOMAIN metricFamilyByName
         /\ \A n \in DOMAIN metricFamilyByName :
              Occurrences(metrics[h], n) = IF n = FQNameOf(h) THEN 1 ELSE 0
    /\ \A n \in DOMAIN metricFamilyByName :
         /\ MemberList(n) # <<>>
         /\ \A j \in DOMAIN MemberList(n) :
              /\ MemberList(n)[j].h \in DOMAIN metrics
              /\ metrics[MemberList(n)[j].h] = MemberList(n)[j]
              /\ FQNameOf(MemberList(n)[j].h) = n
         /\ \A j, k \in DOMAIN MemberList(n) :
              j # k => MemberList(n)[j].h # MemberList(n)[k].h

\* An Update without reset has inserted one Key twice and deleted it, on a
\* cache that held it with another member of its family and still holds the
\* other.
C18_Witness ==
  /\ Completed("u1")
  /\ ~upd["u1"].reset
  /\ upd["u1"].i = 2
  /\ upd["u1"].invalid = 0
  /\ upd["u1"].inserted = {KA}
  /\ upd["u1"].deleted = {KA}
  /\ hash(KA) \in DOMAIN upd["u1"].before.metrics
  /\ DOMAIN metrics = {hash(KAx)}
  /\ HashesOf(MemberList("a")) = <<hash(KAx)>>

\* The step in which an Update with reset returns from line 198 leaves the
\* cache holding what it held when the Update got the lock.
C19_AbortStep ==
  \A u \in Updaters :
    ( /\ upd[u].reset
      /\ upd[u].pc # "done"
      /\ upd'[u].pc = "done"
      /\ upd'[u].offAt > 0 )
      => Cache' = upd[u].before

\* C19: an Update with reset that returns the error of an unsupported
\* ValueType leaves the cache as it was before the call: the same hashes with
\* the same values and timestamps, the same families with the same help, kind
\* and members.
C19_AbortedResetLeavesCache == [][C19_AbortStep]_vars

\* C20: with the callers fairly scheduled and every view released, every
\* Update that was called gets the lock and returns, whatever Gather calls
\* arrive while it waits.
C20_UpdateReturns ==
  \A u \in Updaters : (upd[u].pc = "Lock") ~> (upd[u].pc = "done")

\* An Update has returned and let in two Gather calls that arrived while it
\* held or waited for the lock; the other Update has the writers' mutex and
\* waits for them.
C20_Witness ==
  /\ upd["u1"].pc = "done"
  /\ upd["u2"].pc = "Wait"
  /\ gth["g1"].pc = "admitted"
  /\ gth["g2"].pc = "admitted"
  /\ mMu.readers = {"g1", "g2"}

====
